---- MODULE Spec2Model ----
(***************************************************************************)
(* Happyplates: menu PDF -> CSV pipeline (src/main.py) and the bounding-box *)
(* annotator (src/boundingbox.py).                                         *)
(*                                                                         *)
(* Three specifications share this module:                                 *)
(*   SpecExtract  OpenAIClient.process_image applied to bounded replies    *)
(*   Spec         main(): rasterize, per-image extraction, combine, over   *)
(*                several submissions that share one working directory     *)
(*   SpecBBox     BoundingBoxApp's mouse and save handlers                 *)
(*                                                                         *)
(* Text is a sequence of one-character strings.  The character U+0060      *)
(* cannot be written inside a string literal of this language, so it is    *)
(* the element Backtick.                                                   *)
(***************************************************************************)
EXTENDS Integers, Sequences, FiniteSets, TLC

VARIABLES
  \* SpecExtract: one call of process_image
  xpc,             \* "ready" before the call, "done" after it
  response,        \* what the chat completion gives back
  json_string,     \* the text cut out of the reply
  menu_data,       \* json.loads of it
  outcome,         \* what the call returns or raises
  \* Spec: main() and the working directory
  pc,              \* "idle", "rasterized", "batch", "shown", "ended", "crashed"
  runs,            \* submissions so far
  fs,              \* directory -> file -> content
  combined_csv,    \* output folder -> the "<output folder>.csv" beside it
  pdf_stem,        \* the uploaded file's name without ".pdf", the same in every submission
  document,        \* the uploaded document
  path,            \* what take_screenshots_of_menu_sections returned
  client,          \* an OpenAIClient was created in this run
  output_folder,   \* process_images_in_folder's output folder
  image_files,     \* its image_files list
  calls,           \* the images handed to process_image in this run, in order
  results,         \* image -> "df" or "none", for the calls that returned
  progress,        \* the (i + 1, total_files) pairs reported
  written_png,     \* the page images written in this run
  written_csv,     \* the per-image tables written in this run
  csv_listing,     \* the .csv files combine_csvs met, in order
  combined_df,     \* the table combine_csvs returned
  combine_ran,     \* combine_csvs was called in this run
  wrote_combined,  \* the combined table was written in this run
  shown_error,     \* st.error was shown in this run
  exception,       \* the exception that ended the run, "" for none
  \* SpecBBox: the annotator
  rect,            \* rectangles created on the canvas; the last is self.rect
  start_x, start_y,
  rect_end,        \* the far corner of the rectangle self.rect on the canvas
  bboxes,
  saved,           \* the text of <image_path>_bboxes.json
  saved_count,     \* Len(bboxes) when it was last written
  button_down,     \* the left button is held over the canvas
  presses,         \* the (x, y) of every press so far
  releases         \* the (x, y) of every release so far

xvars == <<xpc, response, json_string, menu_data, outcome>>

pvars == <<pc, runs, fs, combined_csv, pdf_stem, document, path, client,
           output_folder, image_files, calls, results, progress, written_png,
           written_csv, csv_listing, combined_df, combine_ran, wrote_combined,
           shown_error, exception>>

bvars == <<rect, start_x, start_y, rect_end, bboxes, saved, saved_count,
           button_down, presses, releases>>

vars == <<xvars, pvars, bvars>>

Backtick == "BACKTICK"

(***************************************************************************)
(* Bounds                                                                  *)
(***************************************************************************)
\* number of text pieces a model reply is assembled from
MaxPieces == 3
\* pages of an uploaded document
MaxPages == 2
\* submissions
MaxRuns == 2
\* boxes drawn
MaxBoxes == 2

(***************************************************************************)
(* Reply texts                                                             *)
(***************************************************************************)
\* ```json
MarkerOpen ==
  <<
    Backtick, Backtick, Backtick, "j", "s", "o", "n"
  >>

\* ```
MarkerFence ==
  <<
    Backtick, Backtick, Backtick
  >>

\* \n
TextNewline ==
  <<
    "\n"
  >>

\* Here: 
TextHere ==
  <<
    "H", "e", "r", "e", ":", " "
  >>

\* ok
TextOk ==
  <<
    "o", "k"
  >>

\* [{"item_type":"A","items":[{"item_name":"x"},{"item_name":"y"}]},{"item_type":"B","items":[{"item_name":"z","item_price":null}]}]
DocTwoSections ==
  <<
    "[", "{", "\"", "i", "t", "e", "m", "_", "t", "y", "p", "e", "\"", ":", "\"", "A", "\"",
    ",", "\"", "i", "t", "e", "m", "s", "\"", ":", "[", "{", "\"", "i", "t", "e", "m", "_",
    "n", "a", "m", "e", "\"", ":", "\"", "x", "\"", "}", ",", "{", "\"", "i", "t", "e", "m",
    "_", "n", "a", "m", "e", "\"", ":", "\"", "y", "\"", "}", "]", "}", ",", "{", "\"", "i",
    "t", "e", "m", "_", "t", "y", "p", "e", "\"", ":", "\"", "B", "\"", ",", "\"", "i", "t",
    "e", "m", "s", "\"", ":", "[", "{", "\"", "i", "t", "e", "m", "_", "n", "a", "m", "e",
    "\"", ":", "\"", "z", "\"", ",", "\"", "i", "t", "e", "m", "_", "p", "r", "i", "c", "e",
    "\"", ":", "n", "u", "l", "l", "}", "]", "}", "]"
  >>

\* [{"item_type":"A"},{"item_type":"B","items":[{"item_name":"z"}]}]
DocMissingItems ==
  <<
    "[", "{", "\"", "i", "t", "e", "m", "_", "t", "y", "p", "e", "\"", ":", "\"", "A", "\"",
    "}", ",", "{", "\"", "i", "t", "e", "m", "_", "t", "y", "p", "e", "\"", ":", "\"", "B",
    "\"", ",", "\"", "i", "t", "e", "m", "s", "\"", ":", "[", "{", "\"", "i", "t", "e", "m",
    "_", "n", "a", "m", "e", "\"", ":", "\"", "z", "\"", "}", "]", "}", "]"
  >>

\* [{"item_type":"A","items":[]},{"item_type":"B","items":[{"item_name":"z"}]}]
DocEmptyItems ==
  <<
    "[", "{", "\"", "i", "t", "e", "m", "_", "t", "y", "p", "e", "\"", ":", "\"", "A", "\"",
    ",", "\"", "i", "t", "e", "m", "s", "\"", ":", "[", "]", "}", ",", "{", "\"", "i", "t",
    "e", "m", "_", "t", "y", "p", "e", "\"", ":", "\"", "B", "\"", ",", "\"", "i", "t", "e",
    "m", "s", "\"", ":", "[", "{", "\"", "i", "t", "e", "m", "_", "n", "a", "m", "e", "\"",
    ":", "\"", "z", "\"", "}", "]", "}", "]"
  >>

\* [{"items":[{"item_name":"x"}]}]
DocNoItemType ==
  <<
    "[", "{", "\"", "i", "t", "e", "m", "s", "\"", ":", "[", "{", "\"", "i", "t", "e", "m",
    "_", "n", "a", "m", "e", "\"", ":", "\"", "x", "\"", "}", "]", "}", "]"
  >>

\* [{"item_type":"A","items":[{"item_name"
DocTruncated ==
  <<
    "[", "{", "\"", "i", "t", "e", "m", "_", "t", "y", "p", "e", "\"", ":", "\"", "A", "\"",
    ",", "\"", "i", "t", "e", "m", "s", "\"", ":", "[", "{", "\"", "i", "t", "e", "m", "_",
    "n", "a", "m", "e", "\""
  >>

\* []
DocEmptyList ==
  <<
    "[", "]"
  >>

\* menu_section_page_
PAGE_PREFIX ==
  <<
    "m", "e", "n", "u", "_", "s", "e", "c", "t", "i", "o", "n", "_", "p", "a", "g", "e", "_"
  >>

\* [{"item_type":"P
PageDocA ==
  <<
    "[", "{", "\"", "i", "t", "e", "m", "_", "t", "y", "p", "e", "\"", ":", "\"", "P"
  >>

\* ","items":[{"item_name":"x
PageDocB ==
  <<
    "\"", ",", "\"", "i", "t", "e", "m", "s", "\"", ":", "[", "{", "\"", "i", "t", "e", "m",
    "_", "n", "a", "m", "e", "\"", ":", "\"", "x"
  >>

\* "},{"item_name":"y
PageDocC ==
  <<
    "\"", "}", ",", "{", "\"", "i", "t", "e", "m", "_", "n", "a", "m", "e", "\"", ":", "\"", "y"
  >>

\* "}]}]
PageDocD ==
  <<
    "\"", "}", "]", "}", "]"
  >>

Pieces ==
  { MarkerOpen, MarkerFence, TextNewline, TextHere, TextOk,
    DocTwoSections, DocMissingItems, DocEmptyItems, DocNoItemType,
    DocTruncated, DocEmptyList }

RECURSIVE Concat(_)
Concat(ps) == IF Len(ps) = 0 THEN <<>> ELSE Head(ps) \o Concat(Tail(ps))

\* every text made of at most MaxPieces pieces (the empty text included)
ReplyTexts ==
  { Concat(ps) : ps \in UNION { [1..n -> Pieces] : n \in 0..MaxPieces } }

(***************************************************************************)
(* str.find, str.rfind, slicing, str.strip  (src/main.py:116-118)          *)
(***************************************************************************)
\* sub occurs in s at 0-based offset i
OccursAt(s, sub, i) ==
  /\ i >= 0
  /\ i + Len(sub) <= Len(s)
  /\ SubSeq(s, i + 1, i + Len(sub)) = sub

\* str.find: lowest offset of sub in s, -1 when absent
find(s, sub) ==
  LET hits == { i \in 0..Len(s) : OccursAt(s, sub, i) }
  IN  IF hits = {} THEN -1 ELSE CHOOSE i \in hits : \A j \in hits : i <= j

\* str.rfind: highest offset of sub in s, -1 when absent
rfind(s, sub) ==
  LET hits == { i \in 0..Len(s) : OccursAt(s, sub, i) }
  IN  IF hits = {} THEN -1 ELSE CHOOSE i \in hits : \A j \in hits : i >= j

\* a slice bound as Python normalises it: negative counts from the end,
\* then clamped to 0..len
ClampIndex(i, n) ==
  LET k == IF i < 0 THEN i + n ELSE i
  IN  IF k < 0 THEN 0 ELSE IF k > n THEN n ELSE k

\* s[a:b]
Slice(s, a, b) ==
  LET lo == ClampIndex(a, Len(s))
      hi == ClampIndex(b, Len(s))
  IN  IF lo >= hi THEN <<>> ELSE SubSeq(s, lo + 1, hi)

Whitespace == {" ", "\n", "\t", "\r"}

RECURSIVE lstrip(_)
lstrip(s) ==
  IF Len(s) > 0 /\ Head(s) \in Whitespace THEN lstrip(Tail(s)) ELSE s

RECURSIVE rstrip(_)
rstrip(s) ==
  IF Len(s) > 0 /\ s[Len(s)] \in Whitespace
  THEN rstrip(SubSeq(s, 1, Len(s) - 1)) ELSE s

strip(s) == rstrip(lstrip(s))

(***************************************************************************)
(* json.loads  (src/main.py:125).  Values are tagged:                      *)
(*   null, bool, num (its text), str, list (a sequence), dict (a function  *)
(*   from key to value, the last of equal keys winning).                   *)
(* A parse step returns [ok, val, pos]: pos is the 1-based position of the *)
(* next unread character.                                                  *)
(***************************************************************************)
JNull == [t |-> "null"]
JBool(b) == [t |-> "bool", v |-> b]
JNum(txt) == [t |-> "num", v |-> txt]
JStr(txt) == [t |-> "str", v |-> txt]
JList(vs) == [t |-> "list", v |-> vs]
JDict(f) == [t |-> "dict", v |-> f]

ParseFail(p) == [ok |-> FALSE, val |-> JNull, pos |-> p]
ParseOk(v, p) == [ok |-> TRUE, val |-> v, pos |-> p]

CharAt(s, p) == IF p >= 1 /\ p <= Len(s) THEN s[p] ELSE ""

RECURSIVE SkipWhitespace(_, _)
SkipWhitespace(s, p) ==
  IF CharAt(s, p) \in Whitespace THEN SkipWhitespace(s, p + 1) ELSE p

Digits == {"0", "1", "2", "3", "4", "5", "6", "7", "8", "9"}

RECURSIVE SkipDigits(_, _)
SkipDigits(s, p) ==
  IF CharAt(s, p) \in Digits THEN SkipDigits(s, p + 1) ELSE p

RECURSIVE TextOf(_)
TextOf(cs) == IF Len(cs) = 0 THEN "" ELSE Head(cs) \o TextOf(Tail(cs))

\* NUMBER_RE = (-?(?:0|[1-9]\d*))(\.\d+)?([eE][-+]?\d+)? matched at p:
\* the position after the match, 0 when there is none.
\* The integer part, from q (after the sign):
NumberInt(s, q) ==
  IF CharAt(s, q) \notin Digits THEN 0
  ELSE IF CharAt(s, q) = "0" THEN q + 1
  ELSE SkipDigits(s, q)

\* the fraction, from the end of the integer part
NumberFrac(s, intEnd) ==
  IF intEnd # 0 /\ CharAt(s, intEnd) = "." /\ CharAt(s, intEnd + 1) \in Digits
  THEN SkipDigits(s, intEnd + 1)
  ELSE intEnd

\* the digits of the exponent, from expAt; without them the match ends at fracEnd
NumberExpDigits(s, fracEnd, expAt) ==
  IF CharAt(s, expAt) \in Digits THEN SkipDigits(s, expAt) ELSE fracEnd

\* the exponent, from the end of the fraction
NumberExp(s, fracEnd) ==
  IF fracEnd # 0 /\ CharAt(s, fracEnd) \in {"e", "E"}
  THEN NumberExpDigits(s, fracEnd,
                       IF CharAt(s, fracEnd + 1) \in {"+", "-"}
                       THEN fracEnd + 2 ELSE fracEnd + 1)
  ELSE fracEnd

match_number(s, p) ==
  NumberExp(s, NumberFrac(s, NumberInt(s, IF CharAt(s, p) = "-" THEN p + 1 ELSE p)))

\* the literal lit stands at position p
LiteralAt(s, p, lit) == OccursAt(s, lit, p - 1)

\* json.decoder.BACKSLASH: what each simple escape stands for
BACKSLASH ==
  [ c \in {"\"", "\\", "/", "b", "f", "n", "r", "t"} |->
      CASE c = "b" -> "<BS>" [] c = "f" -> "<FF>" [] c = "n" -> "\n"
        [] c = "r" -> "\r" [] c = "t" -> "\t" [] OTHER -> c ]

HexDigits == Digits \cup {"a", "b", "c", "d", "e", "f", "A", "B", "C", "D", "E", "F"}

\* py_scanstring with strict=True, p just after the opening quote
RECURSIVE scanstring(_, _, _)
scanstring(s, p, acc) ==
  IF p > Len(s) THEN ParseFail(p)                            \* unterminated string
  ELSE IF CharAt(s, p) = "\"" THEN ParseOk(JStr(acc), p + 1)
  ELSE IF CharAt(s, p) \in {"\n", "\t", "\r"} THEN ParseFail(p)  \* control character
  ELSE IF CharAt(s, p) = "\\"
       THEN IF CharAt(s, p + 1) \in DOMAIN BACKSLASH
            THEN scanstring(s, p + 2, acc \o BACKSLASH[CharAt(s, p + 1)])
            ELSE IF /\ CharAt(s, p + 1) = "u"
                    /\ \A k \in 2..5 : CharAt(s, p + k) \in HexDigits
            THEN scanstring(s, p + 6,
                            acc \o "<U+" \o TextOf(SubSeq(s, p + 2, p + 5)) \o ">")
            ELSE ParseFail(p)
  ELSE scanstring(s, p + 1, acc \o CharAt(s, p))

RECURSIVE scan_once(_, _)
RECURSIVE JSONArray(_, _, _)
RECURSIVE JSONObject(_, _, _)

\* JSONArray after an element: q is at the delimiter that follows it
ArrayDelimiter(s, q, values) ==
  IF CharAt(s, q) = "]" THEN ParseOk(JList(values), q + 1)
  ELSE IF CharAt(s, q) # "," THEN ParseFail(q)       \* expecting ',' delimiter
  ELSE JSONArray(s, SkipWhitespace(s, q + 1), values)

\* JSONArray with the element el just scanned
ArrayElement(s, el, values) ==
  IF ~el.ok THEN ParseFail(el.pos)
  ELSE ArrayDelimiter(s, SkipWhitespace(s, el.pos), Append(values, el.val))

\* the loop of JSONArray: p is where the next element starts
JSONArray(s, p, values) == ArrayElement(s, scan_once(s, p), values)

\* JSONObject after a comma: k is where the next key must open
ObjectNextKey(s, k, pairs) ==
  IF CharAt(s, k) # "\"" THEN ParseFail(k)   \* expecting property name
  ELSE JSONObject(s, k + 1, pairs)

\* JSONObject after a value: q is at the delimiter that follows it
ObjectDelimiter(s, q, pairs) ==
  IF CharAt(s, q) = "}" THEN ParseOk(JDict(pairs), q + 1)
  ELSE IF CharAt(s, q) # "," THEN ParseFail(q)       \* expecting ',' delimiter
  ELSE ObjectNextKey(s, SkipWhitespace(s, q + 1), pairs)

\* JSONObject with the value el of key just scanned; the last of equal
\* keys wins
ObjectValue(s, key, el, pairs) ==
  IF ~el.ok THEN ParseFail(el.pos)
  ELSE ObjectDelimiter(s, SkipWhitespace(s, el.pos), (key :> el.val) @@ pairs)

\* JSONObject after a key: colon is where the ':' must stand
ObjectColon(s, key, colon, pairs) ==
  IF CharAt(s, colon) # ":" THEN ParseFail(colon)    \* expecting ':' delimiter
  ELSE ObjectValue(s, key, scan_once(s, SkipWhitespace(s, colon + 1)), pairs)

\* JSONObject with the key just scanned
ObjectKey(s, key, pairs) ==
  IF ~key.ok THEN ParseFail(key.pos)
  ELSE ObjectColon(s, key.val.v, SkipWhitespace(s, key.pos), pairs)

\* the loop of JSONObject: p is just after the opening quote of a key
JSONObject(s, p, pairs) == ObjectKey(s, scanstring(s, p, ""), pairs)

\* JSONObject from q, the first position after '{' that is not whitespace
ObjectOpen(s, q) ==
  IF CharAt(s, q) = "}" THEN ParseOk(JDict(<<>>), q + 1)
  ELSE IF CharAt(s, q) # "\"" THEN ParseFail(q)      \* expecting property name
  ELSE JSONObject(s, q + 1, <<>>)

\* JSONArray from q, the first position after '[' that is not whitespace
ArrayOpen(s, q) ==
  IF CharAt(s, q) = "]" THEN ParseOk(JList(<<>>), q + 1)
  ELSE JSONArray(s, q, <<>>)

\* the last cases of _scan_once: a number that matched up to numEnd, or
\* one of the constants NaN, Infinity, -Infinity
ScanNumber(s, p, numEnd) ==
  IF numEnd # 0 THEN ParseOk(JNum(TextOf(SubSeq(s, p, numEnd - 1))), numEnd)
  ELSE IF LiteralAt(s, p, <<"N", "a", "N">>) THEN ParseOk(JNum("NaN"), p + 3)
  ELSE IF LiteralAt(s, p, <<"I", "n", "f", "i", "n", "i", "t", "y">>)
       THEN ParseOk(JNum("Infinity"), p + 8)
  ELSE IF LiteralAt(s, p, <<"-", "I", "n", "f", "i", "n", "i", "t", "y">>)
       THEN ParseOk(JNum("-Infinity"), p + 9)
  ELSE ParseFail(p)                                  \* expecting value

\* py_make_scanner's _scan_once
scan_once(s, p) ==
  IF p > Len(s) THEN ParseFail(p)                    \* expecting value
  ELSE IF CharAt(s, p) = "\"" THEN scanstring(s, p + 1, "")
  ELSE IF CharAt(s, p) = "{" THEN ObjectOpen(s, SkipWhitespace(s, p + 1))
  ELSE IF CharAt(s, p) = "[" THEN ArrayOpen(s, SkipWhitespace(s, p + 1))
  ELSE IF LiteralAt(s, p, <<"n", "u", "l", "l">>) THEN ParseOk(JNull, p + 4)
  ELSE IF LiteralAt(s, p, <<"t", "r", "u", "e">>) THEN ParseOk(JBool(TRUE), p + 4)
  ELSE IF LiteralAt(s, p, <<"f", "a", "l", "s", "e">>)
       THEN ParseOk(JBool(FALSE), p + 5)
  ELSE ScanNumber(s, p, match_number(s, p))

\* JSONDecoder.decode after raw_decode gave r: only whitespace may follow
DecodeEnd(s, r) ==
  IF ~r.ok THEN r
  ELSE IF SkipWhitespace(s, r.pos) # Len(s) + 1 THEN ParseFail(r.pos)  \* extra data
  ELSE r

\* json.loads: one value, whitespace around it, nothing after it.
\* ok = FALSE is JSONDecodeError.
json_loads(s) == DecodeEnd(s, scan_once(s, SkipWhitespace(s, 1)))

(***************************************************************************)
(* pd.json_normalize(menu_data, record_path=['items'], meta=['item_type']) *)
(* (src/main.py:126).  A table is [cols, rows]: the set of column names    *)
(* and the sequence of rows, each a function from cols to a cell.  A step  *)
(* that can raise returns [exc, val], exc = "" when it did not.            *)
(***************************************************************************)
NaN == [t |-> "nan"]

DataFrame(cols, rows) == [cols |-> cols, rows |-> rows]

Raised(e) == [exc |-> e, val |-> JNull]
Pulled(v) == [exc |-> "", val |-> v]

\* _pull_records(js, 'items'): js['items'], which must be a list or null
pull_records(js) ==
  IF js.t # "dict" THEN Raised("TypeError")
  ELSE IF "items" \notin DOMAIN js.v THEN Raised("KeyError")
  ELSE IF js.v["items"].t = "list" THEN Pulled(js.v["items"].v)
  ELSE IF js.v["items"].t = "null" THEN Pulled(<<>>)
  ELSE Raised("TypeError")

\* _pull_field(js, ['item_type']) with errors='raise'
pull_field(js) ==
  IF js.t # "dict" THEN Raised("TypeError")
  ELSE IF "item_type" \notin DOMAIN js.v THEN Raised("KeyError")
  ELSE Pulled(js.v["item_type"])

\* nested_to_record: the (key, value) pairs of d, a nested dict's keys
\* joined to its parent's with "."
RECURSIVE nested_to_record(_, _)
nested_to_record(d, prefix) ==
  UNION { IF d[k].t = "dict"
          THEN nested_to_record(d[k].v, prefix \o k \o ".")
          ELSE { <<prefix \o k, d[k]>> } : k \in DOMAIN d }

\* a record of the items list as DataFrame(records) reads it
RecordCells(r) ==
  IF r.t = "dict"
  THEN LET pairs == nested_to_record(r.v, "")
       IN  [ k \in { pr[1] : pr \in pairs } |->
               (CHOOSE pr \in pairs : pr[1] = k)[2] ]
  ELSE [ k \in {"0"} |-> r ]

RECURSIVE TotalLength(_)
TotalLength(lengths) ==
  IF Len(lengths) = 0 THEN 0 ELSE Head(lengths) + TotalLength(Tail(lengths))

\* a repeat that gives every row the first value
repeat_first(values, lengths) ==
  IF Len(values) = 0 THEN <<>>
  ELSE [ i \in 1..TotalLength(lengths) |-> Head(values) ]

\* values.repeat(lengths): the i-th value taken lengths[i] times
RECURSIVE repeat(_, _)
repeat(values, lengths) ==
  IF Len(values) = 0 THEN <<>>
  ELSE [ i \in 1..Head(lengths) |-> Head(values) ]
         \o repeat(Tail(values), Tail(lengths))

\* _recursive_extract: section by section, the records, their count and
\* the section's item_type; stops at the first section that raises
RECURSIVE recursive_extract(_, _)

\* one section of _recursive_extract: its records recs and its item_type meta
extract_section(rest, recs, meta, acc) ==
  IF recs.exc # "" THEN [acc EXCEPT !.exc = recs.exc]
  ELSE IF meta.exc # "" THEN [acc EXCEPT !.exc = meta.exc]
  ELSE recursive_extract(
         rest,
         [ records   |-> acc.records \o recs.val,
           lengths   |-> Append(acc.lengths, Len(recs.val)),
           meta_vals |-> Append(acc.meta_vals, meta.val),
           exc       |-> "" ])

recursive_extract(data, acc) ==
  IF Len(data) = 0 THEN acc
  ELSE extract_section(Tail(data), pull_records(Head(data)), pull_field(Head(data)), acc)

\* the outcome of a call: a table, None, or an exception that leaves the call
ReturnsFrame(df) == [kind |-> "df", df |-> df, exc |-> ""]
ReturnsNone == [kind |-> "none", df |-> DataFrame({}, <<>>), exc |-> ""]
Raises(e) == [kind |-> "raise", df |-> DataFrame({}, <<>>), exc |-> e]

\* DataFrame(records) with the item_type column added to it
\* (cells: the records as rows; item_type: the column's values)
frame_of(cells, item_type) ==
  DataFrame(
    UNION { DOMAIN cells[i] : i \in 1..Len(cells) } \cup {"item_type"},
    [ i \in 1..Len(cells) |->
        [ c \in UNION { DOMAIN cells[k] : k \in 1..Len(cells) } \cup {"item_type"} |->
            IF c = "item_type" THEN item_type[i]
            ELSE IF c \in DOMAIN cells[i] THEN cells[i][c]
            ELSE NaN ] ])

\* the rest of json_normalize once _recursive_extract has run
build_frame(ex) ==
  IF ex.exc # "" THEN Raises(ex.exc)
  ELSE IF /\ Len(ex.records) > 0
          /\ ex.records[1].t = "dict"
          /\ \E i \in 1..Len(ex.records) : ex.records[i].t # "dict"
       THEN Raises("AttributeError")                \* DataFrame(records)
  ELSE IF \E i \in 1..Len(ex.records) : "item_type" \in DOMAIN RecordCells(ex.records[i])
       THEN Raises("ValueError")                    \* conflicting metadata name
  ELSE ReturnsFrame(frame_of([ i \in 1..Len(ex.records) |-> RecordCells(ex.records[i]) ],
                             repeat(ex.meta_vals, ex.lengths)))

json_normalize(data) ==
  IF data.t = "list" /\ Len(data.v) = 0 THEN ReturnsFrame(DataFrame({}, <<>>))
  ELSE IF data.t \notin {"list", "dict"} THEN Raises("NotImplementedError")
  ELSE build_frame(
         recursive_extract(
           IF data.t = "dict" THEN <<data>> ELSE data.v,
           [records |-> <<>>, lengths |-> <<>>, meta_vals |-> <<>>, exc |-> ""]))

(***************************************************************************)
(* OpenAIClient.process_image  (src/main.py:81-138)                        *)
(***************************************************************************)
\* what client.chat.completions.create gives back: the reply text, or an
\* OpenAIError
ApiError == [error |-> TRUE, content |-> <<>>]
ApiReply(text) == [error |-> FALSE, content |-> text]

\* src/main.py:116-118
extract_json_string(response_content) ==
  LET json_start == find(response_content, MarkerOpen) + Len(MarkerOpen)
      json_end == rfind(response_content, MarkerFence)
  IN  strip(Slice(response_content, json_start, json_end))

\* src/main.py:125-132, for the result of json.loads
normalize_parsed(parsed) ==
  IF ~parsed.ok THEN ReturnsNone                       \* except JSONDecodeError
  ELSE json_normalize(parsed.val)

\* src/main.py:120-125, for the text cut out of the reply
parse_json_string(js) ==
  IF Len(js) = 0 THEN ReturnsNone                      \* not json_string
  ELSE normalize_parsed(json_loads(js))

process_image(resp) ==
  IF resp.error THEN ReturnsNone                       \* except OpenAIError
  ELSE IF Len(resp.content) = 0 THEN ReturnsNone       \* not response_content
  ELSE parse_json_string(extract_json_string(resp.content))

(***************************************************************************)
(* Files and directories.  A file name is [base, num, ext]: the text       *)
(* before a page number, the page number (0 when the name has none) and    *)
(* the extension, so that os.path.splitext and str.endswith can be         *)
(* computed.  A directory name is text.                                    *)
(***************************************************************************)
File(base, num, ext) == [base |-> base, num |-> num, ext |-> ext]

None == <<"<None>">>

UPLOADS == <<"u", "p", "l", "o", "a", "d", "s">>

\* the names a document is uploaded under, without the ".pdf"
PdfStems ==
  { <<"m", "y", " ", "m", "e", "n", "u">>, UPLOADS }

\* a document: whether fitz.open succeeds, its page count, and the page
\* (0 for none) whose rendering raises
Documents ==
  { [opens |-> FALSE, page_count |-> 0, bad_page |-> 0] }
    \cup UNION { { [opens |-> TRUE, page_count |-> n, bad_page |-> b] :
                      b \in 0..n } : n \in 0..MaxPages }

\* PDFProcessor.__init__: the base name with spaces replaced by underscores
base_name(stem) ==
  [ i \in 1..Len(stem) |-> IF stem[i] = " " THEN "_" ELSE stem[i] ]

\* a file name that keeps the 0-based page_num
page_file_zero_based(page_num) == File(PAGE_PREFIX, page_num, ".png")

\* src/main.py:48 for the 0-based page_num
page_file(page_num) == File(PAGE_PREFIX, page_num + 1, ".png")

\* the pages rendered before the loop ends or a page raises
rendered_pages(doc) ==
  IF ~doc.opens THEN {}
  ELSE { n \in 0..(doc.page_count - 1) : doc.bad_page = 0 \/ n + 1 < doc.bad_page }

\* whether take_screenshots_of_menu_sections reaches its except clause
raster_raises(doc) ==
  \/ ~doc.opens
  \/ doc.bad_page \in 1..doc.page_count

\* a rasterizer that returns its folder whatever happened
raster_result_always(doc, folder) == folder

\* what take_screenshots_of_menu_sections returns
raster_result(doc, folder) ==
  IF raster_raises(doc) THEN None ELSE folder

\* the content of a file: a CSV file holds its header and lines
Bytes(kind) == [kind |-> kind, cols |-> {}, rows |-> <<>>]
CsvBytes(text) == [kind |-> "csv", cols |-> text.cols, rows |-> text.rows]

\* os.makedirs(d, exist_ok=True), and the guarded os.makedirs of src/main.py:41-42;
\* a file system maps each directory to its files and their contents
makedirs(files, d) == IF d \in DOMAIN files THEN files ELSE (d :> <<>>) @@ files

\* the files of new written into directory d, created or overwritten
write_files(files, d, new) == [files EXCEPT ![d] = new @@ @]

\* os.listdir(d) as a set
listdir(files, d) == DOMAIN files[d]

\* a filter that lets every file through
is_any_file(f) == TRUE

\* src/main.py:173
is_image(f) == f.ext \in {".png", ".jpg", ".jpeg"}

\* src/main.py:205
is_csv(f) == f.ext = ".csv"

\* src/main.py:170
output_folder_of(p) == p \o <<"_", "o", "u", "t", "p", "u", "t">>

\* src/main.py:180
csv_filename(f) == File(f.base, f.num, ".csv")

\* os.listdir returns the names of a directory in arbitrary order
Listings(S) ==
  { l \in [1..Cardinality(S) -> S] : \A i, j \in DOMAIN l : i # j => l[i] # l[j] }

(***************************************************************************)
(* DataFrame.to_csv, pd.read_csv, pd.concat  (src/main.py:182, 207-208)    *)
(***************************************************************************)
\* the text a cell is written as
CellText(x) ==
  CASE x.t \in {"str", "num"} -> x.v
    [] x.t = "bool" -> IF x.v THEN "True" ELSE "False"
    [] x.t \in {"null", "nan"} -> ""
    [] OTHER -> "<object>"

\* the file to_csv(index=False) writes: the header and one line per row
to_csv(df) ==
  [ cols |-> df.cols,
    rows |-> [ i \in 1..Len(df.rows) |->
                 [ c \in df.cols |-> CellText(df.rows[i][c]) ] ] ]

\* the texts read_csv reads as missing
NaValues ==
  { "", "#N/A", "#N/A N/A", "#NA", "-1.#IND", "-1.#QNAN", "-NaN", "-nan",
    "1.#IND", "1.#QNAN", "<NA>", "N/A", "NA", "NULL", "NaN", "None", "n/a",
    "nan", "null" }

\* read_csv raises EmptyDataError on a file without a header
read_csv_raises(file) == file.cols = {}

read_csv(file) ==
  DataFrame(
    file.cols,
    [ i \in 1..Len(file.rows) |->
        [ c \in file.cols |->
            IF file.rows[i][c] \in NaValues THEN NaN
            ELSE JStr(file.rows[i][c]) ] ])

\* pd.concat([a, b], ignore_index=True): the union of the columns, a's rows
\* then b's, the cells of a column a table lacks missing
concat(a, b) ==
  LET cols == a.cols \cup b.cols
      widen(row) == [ c \in cols |-> IF c \in DOMAIN row THEN row[c] ELSE NaN ]
  IN  DataFrame(cols,
                [ i \in 1..Len(a.rows) |-> widen(a.rows[i]) ]
                  \o [ i \in 1..Len(b.rows) |-> widen(b.rows[i]) ])

\* the loop of combine_csvs over the listing of the output folder
RECURSIVE combine_loop(_, _, _)
combine_loop(listing, folder, df) ==
  IF Len(listing) = 0 THEN df
  ELSE combine_loop(
         Tail(listing), folder,
         IF is_csv(Head(listing))
         THEN concat(df, read_csv(folder[Head(listing)]))
         ELSE df)

(***************************************************************************)
(* The replies of the model to a page image                                *)
(***************************************************************************)
DigitChar == [ n \in 0..9 |-> CHOOSE d \in Digits : d = ToString(n) ]

\* [{"item_type":"P<n>","items":[{"item_name":"x<n>"},{"item_name":"y<n>"}]}]
PageDoc(n) ==
  PageDocA \o <<DigitChar[n]>> \o PageDocB \o <<DigitChar[n]>>
    \o PageDocC \o <<DigitChar[n]>> \o PageDocD

Fenced(doc) == MarkerOpen \o TextNewline \o doc \o TextNewline \o MarkerFence

\* what the model may answer for page image n: the call fails, a fenced
\* menu of the page, the menu without fences, a fenced section that lacks
\* its items, a fenced empty list
ResponseKinds == {"api_error", "menu", "no_fence", "missing_items", "empty_list"}

ResponseOf(kind, n) ==
  CASE kind = "api_error" -> ApiError
    [] kind = "menu" -> ApiReply(Fenced(PageDoc(n)))
    [] kind = "no_fence" -> ApiReply(TextHere \o PageDoc(n))
    [] kind = "missing_items" -> ApiReply(Fenced(DocMissingItems))
    [] kind = "empty_list" -> ApiReply(Fenced(DocEmptyList))

\* the one element of a singleton
Only(S) == CHOOSE x \in S : TRUE

\* client.process_image on the file numbered n (0: a file whose name holds
\* no page number) for each answer
PageOutcome ==
  [ n \in 0..MaxPages |->
      [ kind \in ResponseKinds |->
          Only({ process_image(resp) : resp \in {ResponseOf(kind, n)} }) ] ]

(***************************************************************************)
(* main()  (src/main.py:224-259): one submission after another, all in the *)
(* same working directory                                                  *)
(***************************************************************************)
NoDocument == [opens |-> FALSE, page_count |-> 0, bad_page |-> 0]

PInit ==
  /\ pc = "idle"
  /\ runs = 0
  /\ fs = <<>>
  /\ combined_csv = <<>>
  /\ pdf_stem \in PdfStems
  /\ document = NoDocument
  /\ path = None
  /\ client = FALSE
  /\ output_folder = None
  /\ image_files = <<>>
  /\ calls = <<>>
  /\ results = <<>>
  /\ progress = <<>>
  /\ written_png = {}
  /\ written_csv = {}
  /\ csv_listing = <<>>
  /\ combined_df = DataFrame({}, <<>>)
  /\ combine_ran = FALSE
  /\ wrote_combined = FALSE
  /\ shown_error = FALSE
  /\ exception = ""

\* Submit with an uploaded file and a key: the upload is saved and
\* take_screenshots_of_menu_sections runs  (src/main.py:228-238, 40-54)
\* The submissions of one behaviour all upload under the name chosen at the
\* start: runs under different names work in different folders.
Submit(stem, doc) ==
  /\ pc \in {"idle", "ended", "shown", "crashed"}
  /\ runs < MaxRuns
  /\ stem = pdf_stem
  /\ runs' = runs + 1
  /\ pdf_stem' = stem
  /\ document' = doc
  /\ LET folder == base_name(stem)
         uploaded == write_files(makedirs(fs, UPLOADS), UPLOADS,
                                 File(stem, 0, ".pdf") :> Bytes("pdf"))
         pages == { page_file(n) : n \in rendered_pages(doc) }
     IN  /\ fs' = write_files(makedirs(uploaded, folder), folder,
                              [ f \in pages |-> Bytes("png") ])
         /\ written_png' = pages
         /\ path' = raster_result(doc, folder)
  /\ pc' = "rasterized"
  /\ client' = FALSE
  /\ output_folder' = None
  /\ image_files' = <<>>
  /\ calls' = <<>>
  /\ results' = <<>>
  /\ progress' = <<>>
  /\ written_csv' = {}
  /\ csv_listing' = <<>>
  /\ combined_df' = DataFrame({}, <<>>)
  /\ combine_ran' = FALSE
  /\ wrote_combined' = FALSE
  /\ shown_error' = FALSE
  /\ exception' = ""
  /\ UNCHANGED combined_csv
  /\ UNCHANGED <<xvars, bvars>>

\* whether main takes the "path is None" branch  (src/main.py:240)
path_is_none(p) == p = None

\* st.error and return  (src/main.py:240-242)
AbortRun ==
  /\ pc = "rasterized"
  /\ path_is_none(path)
  /\ shown_error' = TRUE
  /\ pc' = "ended"
  /\ UNCHANGED <<runs, fs, combined_csv, pdf_stem, document, path, client,
                 output_folder, image_files, calls, results, progress,
                 written_png, written_csv, csv_listing, combined_df,
                 combine_ran, wrote_combined, exception>>
  /\ UNCHANGED <<xvars, bvars>>

\* the client is created and process_images_in_folder reaches its loop
\* (src/main.py:244-250, 170-174)
StartBatch ==
  /\ pc = "rasterized"
  /\ ~path_is_none(path)
  /\ client' = TRUE
  /\ output_folder' = output_folder_of(path)
  /\ fs' = makedirs(fs, output_folder')
  /\ \E listing \in Listings(listdir(fs, path)) :
       image_files' = SelectSeq(listing, is_image)
  /\ pc' = "batch"
  /\ UNCHANGED <<runs, combined_csv, pdf_stem, document, path, calls, results,
                 progress, written_png, written_csv, csv_listing, combined_df,
                 combine_ran, wrote_combined, shown_error, exception>>
  /\ UNCHANGED <<xvars, bvars>>

\* one pass of the loop of process_images_in_folder  (src/main.py:176-187)
ProcessNext ==
  /\ pc = "batch"
  /\ Len(calls) < Len(image_files)
  /\ LET filename == image_files[Len(calls) + 1]
         total_files == Len(image_files)
     IN  \E kind \in ResponseKinds :
           LET menu_df == PageOutcome[filename.num][kind] IN
           /\ calls' = Append(calls, filename)
           /\ IF menu_df.kind = "raise"
              THEN /\ pc' = "crashed"
                   /\ exception' = menu_df.exc
                   /\ UNCHANGED <<fs, results, progress, written_csv>>
              ELSE /\ results' = (filename :> menu_df.kind) @@ results
                   /\ IF menu_df.kind = "df"
                      THEN /\ fs' = write_files(
                                      fs, output_folder,
                                      csv_filename(filename)
                                        :> CsvBytes(to_csv(menu_df.df)))
                           /\ written_csv' = written_csv \cup {csv_filename(filename)}
                      ELSE UNCHANGED <<fs, written_csv>>
                   /\ progress' = Append(progress, <<Len(calls) + 1, total_files>>)
                   /\ UNCHANGED <<pc, exception>>
  /\ UNCHANGED <<runs, combined_csv, pdf_stem, document, path, client,
                 output_folder, image_files, written_png, csv_listing,
                 combined_df, combine_ran, wrote_combined, shown_error>>
  /\ UNCHANGED <<xvars, bvars>>

\* process_images_in_folder returns and combine_csvs runs; the table is
\* shown  (src/main.py:189, 203-211, 251-259)
Combine ==
  /\ pc = "batch"
  /\ Len(calls) = Len(image_files)
  /\ combine_ran' = TRUE
  /\ \E listing \in Listings(listdir(fs, output_folder)) :
       /\ csv_listing' = SelectSeq(listing, is_csv)
       /\ IF \E f \in listdir(fs, output_folder) :
               is_csv(f) /\ read_csv_raises(fs[output_folder][f])
          THEN /\ pc' = "crashed"
               /\ exception' = "EmptyDataError"
               /\ UNCHANGED <<combined_df, combined_csv, wrote_combined>>
          ELSE /\ combined_df' = combine_loop(listing, fs[output_folder],
                                              DataFrame({}, <<>>))
               /\ combined_csv' = (output_folder :> to_csv(combined_df'))
                                     @@ combined_csv
               /\ wrote_combined' = TRUE
               /\ pc' = "shown"
               /\ UNCHANGED exception
  /\ UNCHANGED <<runs, fs, pdf_stem, document, path, client, output_folder,
                 image_files, calls, results, progress, written_png,
                 written_csv, shown_error>>
  /\ UNCHANGED <<xvars, bvars>>


(***************************************************************************)
(* BoundingBoxApp  (src/boundingbox.py)                                    *)
(***************************************************************************)
\* the coordinates a mouse event can carry
XCoords == {0, 1}
YCoords == {2, 3}

NoFile == <<"<no file>">>

\* the decimal text of an integer, as json.dump writes it
RECURSIVE NatChars(_)
NatChars(n) ==
  IF n < 10 THEN <<DigitChar[n]>>
  ELSE NatChars(n \div 10) \o <<DigitChar[n % 10]>>

IntChars(n) == IF n < 0 THEN <<"-">> \o NatChars(0 - n) ELSE NatChars(n)

\* ", ".join(parts)
RECURSIVE JoinComma(_)
JoinComma(parts) ==
  IF Len(parts) = 0 THEN <<>>
  ELSE IF Len(parts) = 1 THEN Head(parts)
  ELSE Head(parts) \o <<",", " ">> \o JoinComma(Tail(parts))

\* json.dump of a list of tuples of integers: each tuple an array
json_dump(boxes) ==
  <<"[">>
    \o JoinComma([ k \in 1..Len(boxes) |->
                     <<"[">>
                       \o JoinComma([ j \in 1..Len(boxes[k]) |->
                                        IntChars(boxes[k][j]) ])
                       \o <<"]">> ])
    \o <<"]">>

\* a tuple with the end coordinates exchanged
released_box_swapped(sx, sy, end_x, end_y) == <<sx, sy, end_y, end_x>>

\* the tuple on_button_release appends  (src/boundingbox.py:83-84)
released_box(sx, sy, end_x, end_y) == <<sx, sy, end_x, end_y>>

BInit ==
  /\ rect = 0
  /\ start_x = None
  /\ start_y = None
  /\ rect_end = None
  /\ bboxes = <<>>
  /\ saved = NoFile
  /\ saved_count = 0
  /\ button_down = FALSE
  /\ presses = <<>>
  /\ releases = <<>>

\* <ButtonPress-1> at (x, y): a new rectangle starts there
on_button_press(x, y) ==
  /\ ~button_down
  /\ Len(presses) < MaxBoxes
  /\ start_x' = x
  /\ start_y' = y
  /\ rect' = rect + 1
  /\ rect_end' = <<x, y>>
  /\ button_down' = TRUE
  /\ presses' = Append(presses, <<x, y>>)
  /\ UNCHANGED <<bboxes, saved, saved_count, releases>>
  /\ UNCHANGED <<xvars, pvars>>

\* <B1-Motion> at (x, y): the current rectangle is stretched to there
on_mouse_drag(x, y) ==
  /\ button_down
  /\ rect_end' = <<x, y>>
  /\ UNCHANGED <<rect, start_x, start_y, bboxes, saved, saved_count,
                 button_down, presses, releases>>
  /\ UNCHANGED <<xvars, pvars>>

\* <ButtonRelease-1> at (x, y): the box is appended
on_button_release(x, y) ==
  /\ button_down
  /\ bboxes' = Append(bboxes, released_box(start_x, start_y, x, y))
  /\ button_down' = FALSE
  /\ releases' = Append(releases, <<x, y>>)
  /\ UNCHANGED <<rect, start_x, start_y, rect_end, saved, saved_count, presses>>
  /\ UNCHANGED <<xvars, pvars>>

\* the Save button
save_bboxes ==
  /\ saved' = json_dump(bboxes)
  /\ saved_count' = Len(bboxes)
  /\ UNCHANGED <<rect, start_x, start_y, rect_end, bboxes, button_down,
                 presses, releases>>
  /\ UNCHANGED <<xvars, pvars>>

(***************************************************************************)
(* Specifications                                                          *)
(***************************************************************************)
NoData == [ok |-> FALSE, val |-> JNull, pos |-> 0]

\* no call of process_image under way
XIdle ==
  /\ xpc = "idle"
  /\ response = ApiError
  /\ json_string = <<>>
  /\ menu_data = NoData
  /\ outcome = ReturnsNone

XInit ==
  /\ xpc = "ready"
  /\ response \in {ApiError} \cup { ApiReply(t) : t \in ReplyTexts }
  /\ json_string = <<>>
  /\ menu_data = NoData
  /\ outcome = ReturnsNone

\* one call of process_image, start to return (or to the exception that
\* leaves it)
ProcessImage ==
  /\ xpc = "ready"
  /\ xpc' = "done"
  /\ json_string' = IF response.error THEN <<>>
                    ELSE extract_json_string(response.content)
  /\ menu_data' = IF response.error \/ Len(json_string') = 0 THEN NoData
                  ELSE json_loads(json_string')
  /\ outcome' = process_image(response)
  /\ UNCHANGED response
  /\ UNCHANGED <<pvars, bvars>>

ExtractInit == XInit /\ PInit /\ BInit

SpecExtract == ExtractInit /\ [][ProcessImage]_vars

Init == XIdle /\ PInit /\ BInit

Next ==
  \/ \E stem \in PdfStems, doc \in Documents : Submit(stem, doc)
  \/ AbortRun
  \/ StartBatch
  \/ ProcessNext
  \/ Combine

Spec == Init /\ [][Next]_vars

BNext ==
  \/ \E x \in XCoords, y \in YCoords : on_button_press(x, y)
  \/ \E x \in XCoords, y \in YCoords : on_mouse_drag(x, y)
  \/ \E x \in XCoords, y \in YCoords : on_button_release(x, y)
  \/ save_bboxes

BBoxInit == XIdle /\ PInit /\ BInit

SpecBBox == BBoxInit /\ [][BNext]_vars

(***************************************************************************)
(* Claims about process_image (checked under SpecExtract)                  *)
(***************************************************************************)
\* the reply holds the opening marker
HasOpeningMarker(text) == find(text, MarkerOpen) # -1

\* the reply holds a fence after its first opening marker
HasClosingFence(text) ==
  /\ HasOpeningMarker(text)
  /\ rfind(text, MarkerFence) >= find(text, MarkerOpen) + Len(MarkerOpen)

\* the text between the first opening marker and the last fence, trimmed
FencedText(text) ==
  strip(SubSeq(text, find(text, MarkerOpen) + Len(MarkerOpen) + 1,
               rfind(text, MarkerFence)))

MalformedReply(text) ==
  \/ ~HasOpeningMarker(text)
  \/ ~HasClosingFence(text)
  \/ Len(FencedText(text)) = 0
  \/ ~json_loads(FencedText(text)).ok

\* C1: a reply that lacks the opening marker or the closing fence, or whose
\* fenced text is empty or not valid JSON, makes process_image return None.
C1_MalformedReplyReturnsNone ==
  (xpc = "done" /\ ~response.error /\ MalformedReply(response.content))
    => outcome.kind = "none"

ItemFields == {"item_name", "item_description", "item_price", "item_portion"}

IsItem(x) ==
  /\ x.t = "dict"
  /\ DOMAIN x.v \subseteq ItemFields
  /\ \A k \in DOMAIN x.v : x.v[k].t \in {"str", "null", "num", "bool"}

IsSection(x) ==
  /\ x.t = "dict"
  /\ {"item_type", "items"} \subseteq DOMAIN x.v
  /\ x.v["items"].t = "list"
  /\ \A i \in 1..Len(x.v["items"].v) : IsItem(x.v["items"].v[i])

IsSectionSequence(d) ==
  /\ d.t = "list"
  /\ \A i \in 1..Len(d.v) : IsSection(d.v[i])

\* the number of items in the sections before section s
RECURSIVE ItemsBefore(_, _)
ItemsBefore(sections, s) ==
  IF s <= 1 THEN 0
  ELSE ItemsBefore(sections, s - 1) + Len(sections[s - 1].v["items"].v)

\* C4: for a reply that parses to a sequence of section objects, the table
\* has one row per item, in section-then-item order, each row holding its
\* item's fields and the item_type of the section the item is in.
C4_OneRowPerItem ==
  (xpc = "done" /\ menu_data.ok /\ IsSectionSequence(menu_data.val)) =>
    LET sections == menu_data.val.v
        rows == outcome.df.rows
    IN  /\ outcome.kind = "df"
        /\ Len(rows) = ItemsBefore(sections, Len(sections) + 1)
        /\ \A s \in 1..Len(sections) :
             \A j \in 1..Len(sections[s].v["items"].v) :
               LET item == sections[s].v["items"].v[j].v
                   row == rows[ItemsBefore(sections, s) + j]
               IN  /\ row["item_type"] = sections[s].v["item_type"]
                   /\ \A k \in DOMAIN item : row[k] = item[k]
                   /\ \A k \in DOMAIN row \ (DOMAIN item \cup {"item_type"}) :
                        row[k] = NaN

\* a reply of two sections, the first with two items, was flattened
C4_Witness ==
  /\ xpc = "done"
  /\ menu_data.ok
  /\ IsSectionSequence(menu_data.val)
  /\ Len(menu_data.val.v) = 2
  /\ Len(menu_data.val.v[1].v["items"].v) = 2
  /\ Len(outcome.df.rows) = 3

\* a section object whose items are missing or an empty sequence
LacksItems(x) ==
  /\ x.t = "dict"
  /\ "item_type" \in DOMAIN x.v
  /\ \/ "items" \notin DOMAIN x.v
     \/ x.v["items"].t = "list" /\ Len(x.v["items"].v) = 0

RECURSIVE CountItems(_)
CountItems(sections) ==
  IF Len(sections) = 0 THEN 0
  ELSE (IF "items" \in DOMAIN Head(sections).v
        THEN Len(Head(sections).v["items"].v) ELSE 0)
       + CountItems(Tail(sections))

\* C5: when the reply parses and some section has a missing or empty items
\* sequence, process_image does not raise, and the table holds the rows of
\* the other sections' items.
C5_MissingItemsNoRows ==
  ( /\ xpc = "done"
    /\ menu_data.ok
    /\ menu_data.val.t = "list"
    /\ \A i \in 1..Len(menu_data.val.v) :
         IsSection(menu_data.val.v[i]) \/ LacksItems(menu_data.val.v[i])
    /\ \E i \in 1..Len(menu_data.val.v) : LacksItems(menu_data.val.v[i]) )
  => /\ outcome.kind = "df"
     /\ Len(outcome.df.rows) = CountItems(menu_data.val.v)

(***************************************************************************)
(* Claims about a run of main (checked under Spec)                         *)
(***************************************************************************)
\* the batch of the current run was started
BatchStarted == pc \in {"batch", "shown", "crashed"}

\* C2: once a batch has started and is no longer in its loop, every image
\* of the list was passed to the Extraction Client, progress was reported
\* for every image, and combine_csvs ran: no per-image failure aborted it.
C2_BatchNeverAborts ==
  (pc \in {"shown", "crashed"}) =>
    /\ Len(calls) = Len(image_files)
    /\ Len(progress) = Len(image_files)
    /\ combine_ran

\* the item_type of the rows of page n in the replies of the model
PageTag(n) == JStr("P" \o ToString(n))

\* the page a row of the combined table comes from
RowPage(row) == CHOOSE n \in 0..MaxPages : row["item_type"] = PageTag(n)

\* the images that produced a result in the current run
ProducedResult == { f \in DOMAIN results : results[f] = "df" }

\* the images whose call failed or whose reply could not be parsed
ProducedNothing == { f \in DOMAIN results : results[f] = "none" }

\* C3: when the combined table is shown, no image that produced nothing in
\* this run has a per-image file, and every row of the combined table comes
\* from an image that produced a result in this run.
C3_FailedPageContributesNothing ==
  (pc = "shown") =>
    /\ \A f \in ProducedNothing :
         csv_filename(f) \notin listdir(fs, output_folder)
    /\ \A i \in 1..Len(combined_df.rows) :
         \E f \in ProducedResult :
           combined_df.rows[i]["item_type"] = PageTag(f.num)

\* C6: the rows of the combined table are in page order: a row of page p
\* stands before every row of a page q > p.
C6_CombinedInPageOrder ==
  (pc = "shown") =>
    \A i, j \in 1..Len(combined_df.rows) :
      i < j => RowPage(combined_df.rows[i]) <= RowPage(combined_df.rows[j])

\* a file name ends in .png, .jpg or .jpeg
HasImageSuffix(f) == f.ext = ".png" \/ f.ext = ".jpg" \/ f.ext = ".jpeg"

\* the batch runs on a directory that holds no image file
NoImageRun ==
  /\ BatchStarted
  /\ \A f \in listdir(fs, path) : ~HasImageSuffix(f)

\* C7: a batch on a directory without image files calls the Extraction
\* Client on nothing, writes no per-image table, raises nothing, and shows
\* a combined table without rows; no progress fraction is ever computed
\* with a total of 0.
C7_NoImagesNoRows ==
  /\ \A k \in 1..Len(progress) : progress[k][2] # 0
  /\ NoImageRun =>
       /\ image_files = <<>>
       /\ calls = <<>>
       /\ progress = <<>>
       /\ written_csv = {}
       /\ \A f \in listdir(fs, output_folder) : ~is_csv(f)
       /\ pc # "crashed"
       /\ exception = ""
       /\ pc = "shown" =>
            /\ combine_ran
            /\ wrote_combined
            /\ combined_df.rows = <<>>
            /\ combined_csv[output_folder].rows = <<>>

\* the combined table of a directory that holds only a non-image file was
\* shown
C7_Witness ==
  /\ pc = "shown"
  /\ NoImageRun
  /\ listdir(fs, path) # {}

\* C8: in a run whose document cannot be opened or has a page that cannot
\* be rendered, the rasterizer returns None, and then the run only shows the
\* error: no client, no model call, no per-image table, no combined table.
C8_NoResultStopsRun ==
  (pc # "idle" /\ raster_raises(document)) =>
    /\ path = None
    /\ pc \in {"rasterized", "ended"}
    /\ pc = "ended" => shown_error
    /\ ~client
    /\ calls = <<>>
    /\ written_csv = {}
    /\ ~combine_ran
    /\ ~wrote_combined

\* the error was shown for a document whose second page cannot be rendered
C8_Witness ==
  /\ pc = "ended"
  /\ shown_error
  /\ document.opens
  /\ document.bad_page = 2

BoxesValue(boxes) ==
  JList([ k \in 1..Len(boxes) |->
            JList([ j \in 1..4 |-> JNum(ToString(boxes[k][j])) ]) ])

\* C9: bboxes holds one tuple for each completed press and release, in
\* order, the k-th made of the coordinates of the k-th press and of the
\* k-th release; the file a save wrote holds the list as it was at the
\* save, which is still the start of bboxes.
C9_BoxesMatchGestures ==
  /\ Len(bboxes) = Len(releases)
  /\ \A k \in 1..Len(bboxes) :
       bboxes[k] = <<presses[k][1], presses[k][2], releases[k][1], releases[k][2]>>
  /\ saved # NoFile =>
       /\ saved_count <= Len(bboxes)
       /\ json_loads(saved).ok
       /\ json_loads(saved).val = BoxesValue(SubSeq(bboxes, 1, saved_count))

\* two boxes were drawn and saved
C9_Witness ==
  /\ Len(bboxes) = 2
  /\ saved # NoFile
  /\ saved_count = 2
  /\ bboxes[1] # bboxes[2]
====
